---- MODULE Spec2Model ----
(***************************************************************************)
(* Model of the VEML6070 UV-sensor driver (src/veml6070/veml6070.py).      *)
(*                                                                         *)
(* The driver object's attributes are the state; every method is one       *)
(* action.  The I2C bus is the environment: each transaction either        *)
(* succeeds or raises OSError, and each data read delivers a byte chosen   *)
(* by the sensor.  `trace` is the bus traffic (and the sleep) of the last  *)
(* call, `result` how that call ended, `pre` the configuration it started  *)
(* from, `devCmd` the last command byte the sensor accepted.               *)
(*                                                                         *)
(* Durations are in units of 1/10000 s; the sensitivity is in units of     *)
(* 1/160000 (0.05625 = 9000 units), which keeps the arithmetic in integers.*)
(***************************************************************************)
EXTENDS Integers, Sequences, FiniteSets, TLC

VARIABLES constructed, ack, ack_thd, integration_time, rset, buf,
          devCmd, trace, lastOp, lastArg, result, pre

vars == <<constructed, ack, ack_thd, integration_time, rset, buf,
          devCmd, trace, lastOp, lastArg, result, pre>>

----------------------------------------------------------------------------
(* Bounds of the model.                                                    *)

\* data bytes 0..MaxSmallByte are tried on each data register
MaxSmallByte == 0

\* bytes tried on the register at VEML6070_ADDR_LOW and at VEML6070_ADDR_HIGH:
\* read() builds from them, among others, 0, 560 and 561 (2 with 48, 49),
\* 9999 and 10000 (39 with 15, 16) and values above 65000 (255)
LowAddrBytes == (0..MaxSmallByte) \cup {2, 39, 255}

HighAddrBytes == (0..MaxSmallByte) \cup {15, 16, 48, 49}

\* arguments tried on set_integration_time: the four keys and two others
ModeInputs == {"VEML6070_HALF_T", "VEML6070_1_T", "VEML6070_2_T",
               "VEML6070_4_T", "VEML6070_8_T", "RSET_270K"}

\* the transaction of a measurement at which the bus raises OSError
FailPoints == {"none", "wake", "lsb", "msb", "shutdown"}

----------------------------------------------------------------------------
(* Integer arithmetic of the source: shifts and bitwise or.                *)

Shl(x, n) == x * (2 ^ n)

Shr(x, n) == x \div (2 ^ n)

RECURSIVE BitOr(_, _)
BitOr(a, b) ==
    IF a = 0 THEN b
    ELSE IF b = 0 THEN a
    ELSE (IF a % 2 = 1 \/ b % 2 = 1 THEN 1 ELSE 0)
         + 2 * BitOr(a \div 2, b \div 2)

----------------------------------------------------------------------------
(* Module-level constants and tables.                                      *)

VEML6070_ADDR_ARA == Shr(24, 1)

VEML6070_ADDR_CMD == Shr(112, 1)

VEML6070_ADDR_LOW == Shr(113, 1)

VEML6070_ADDR_HIGH == Shr(115, 1)

\* key -> <<command-register code, multiplier>>
VEML6070_INTEGRATION_TIME ==
    [k \in {"VEML6070_HALF_T", "VEML6070_1_T", "VEML6070_2_T", "VEML6070_4_T"} |->
        CASE k = "VEML6070_HALF_T" -> <<0, 0>>
          [] k = "VEML6070_1_T"    -> <<1, 1>>
          [] k = "VEML6070_2_T"    -> <<2, 2>>
          [] k = "VEML6070_4_T"    -> <<3, 4>>]

ValidModes == DOMAIN VEML6070_INTEGRATION_TIME

\* refresh time per resistor setting, in 1/10000 s
case_refresh_rset ==
    [k \in {"RSET_240K", "RSET_270K", "RSET_300K", "RSET_600K"} |->
        CASE k = "RSET_240K" -> 1000
          [] k = "RSET_270K" -> 1125
          [] k = "RSET_300K" -> 1250
          [] k = "RSET_600K" -> 2500]

\* the keys of the risk table in the order the dict literal lists them
RiskLevelKeys == <<"LOW", "MODERATE", "HIGH", "VERY HIGH", "EXTREME">>

\* VEML6070_RISK_LEVEL['RSET_270K']: level -> the two numbers of its entry
VEML6070_RISK_LEVEL ==
    [k \in {"LOW", "MODERATE", "HIGH", "VERY HIGH", "EXTREME"} |->
        CASE k = "LOW"       -> <<0, 560>>
          [] k = "MODERATE"  -> <<561, 1120>>
          [] k = "HIGH"      -> <<1121, 1494>>
          [] k = "VERY HIGH" -> <<1495, 2054>>
          [] k = "EXTREME"   -> <<2055, 9999>>]

\* 0.05625 in units of 1/160000 (divisible by the multipliers 1, 2 and 4)
SensitivityUnit == 9000

----------------------------------------------------------------------------
(* Bus events and call results.                                            *)

\* one bus transaction (or the sleep): data is the byte sequence on the wire
Ev(op, addr, data, ok) == [op |-> op, addr |-> addr, data |-> data, ok |-> ok]

\* how a call ended: kind is "value", "True", "False", "None" or the
\* exception raised; num carries a number, level a risk level
Res(kind, num, level) == [kind |-> kind, num |-> num, level |-> level]

Cfg(it, a, thd) == [integration_time |-> it, ack |-> a, ack_thd |-> thd]

----------------------------------------------------------------------------
(* Command bytes.                                                          *)

\* __init__: ack << 5 | VEML6070_INTEGRATION_TIME['VEML6070_1_T'][0] << 2
InitByte(a) ==
    BitOr(Shl(a, 5), Shl(VEML6070_INTEGRATION_TIME["VEML6070_1_T"][1], 2))

WakeByteWrongModeBits(a, thd, it) ==
    BitOr(BitOr(BitOr(Shl(a, 5), Shl(thd, 4)),
                Shl(VEML6070_INTEGRATION_TIME[it][1], 2)), 3)

\* wake: ack << 5 | ack_thd << 4 | VEML6070_INTEGRATION_TIME[it][0] << 2 | 0x02
WakeByte(a, thd, it) ==
    BitOr(BitOr(BitOr(Shl(a, 5), Shl(thd, 4)),
                Shl(VEML6070_INTEGRATION_TIME[it][1], 2)), 2)

\* shutdown: self.buf[0] = 0x03
ShutdownByte == 3

\* get_refresh_time
RefreshTime(rs, it) == case_refresh_rset[rs] * VEML6070_INTEGRATION_TIME[it][2]

----------------------------------------------------------------------------
Init ==
    /\ constructed = FALSE
    /\ ack = 0
    /\ ack_thd = 0
    /\ integration_time = "VEML6070_1_T"
    /\ rset = "RSET_270K"
    /\ buf = 0
    /\ devCmd \in {2, 3}
    /\ trace = <<>>
    /\ lastOp = "none"
    /\ lastArg = "none"
    /\ result = Res("none", 0, "")
    /\ pre = Cfg("VEML6070_1_T", 0, 0)

\* VEML6070.__init__(i2c, ack=a); ok1, ok2: whether the two transactions pass
Construct(a, ok1, ok2) ==
    /\ ~constructed
    /\ pre' = Cfg(integration_time, ack, ack_thd)
    /\ lastOp' = "__init__"
    /\ lastArg' = "none"
    /\ ack' = a
    /\ ack_thd' = 0
    /\ integration_time' = "VEML6070_1_T"
    /\ rset' = "RSET_270K"
    /\ LET ara_buf == 0
           e1 == Ev("writeto_mem", VEML6070_ADDR_LOW,
                    <<VEML6070_ADDR_ARA, ara_buf>>, ok1)
           e2 == Ev("writeto", VEML6070_ADDR_CMD, <<InitByte(a)>>, ok2)
       IN IF ~ok1
          THEN /\ trace' = <<e1>>
               /\ buf' = 0
               /\ devCmd' = devCmd
               /\ result' = Res("OSError", 0, "")
               /\ constructed' = FALSE
          ELSE /\ trace' = <<e1, e2>>
               /\ buf' = InitByte(a)
               /\ devCmd' = IF ok2 THEN InitByte(a) ELSE ara_buf
               /\ result' = IF ok2 THEN Res("None", 0, "")
                                   ELSE Res("OSError", 0, "")
               /\ constructed' = ok2

SetIntegrationTimeFallsBack(it) ==
    /\ constructed
    /\ pre' = Cfg(integration_time, ack, ack_thd)
    /\ lastOp' = "set_integration_time"
    /\ lastArg' = it
    /\ trace' = <<>>
    /\ IF it \notin DOMAIN VEML6070_INTEGRATION_TIME
       THEN /\ result' = Res("False", 0, "")
            /\ integration_time' = "VEML6070_1_T"
       ELSE /\ integration_time' = it
            /\ result' = Res("NameError", 0, "")
    /\ UNCHANGED <<constructed, ack, ack_thd, rset, buf, devCmd>>

\* set_integration_time(it).  Line 61 reads the name `ack`, which is neither a
\* local of the method nor a name of the module: evaluating it raises
\* NameError after line 60 has stored the mode, before anything is written to
\* self.buf or to the bus.
SetIntegrationTime(it) ==
    /\ constructed
    /\ pre' = Cfg(integration_time, ack, ack_thd)
    /\ lastOp' = "set_integration_time"
    /\ lastArg' = it
    /\ trace' = <<>>
    /\ IF it \notin DOMAIN VEML6070_INTEGRATION_TIME
       THEN /\ result' = Res("False", 0, "")
            /\ integration_time' = integration_time
       ELSE /\ integration_time' = it
            /\ result' = Res("NameError", 0, "")
    /\ UNCHANGED <<constructed, ack, ack_thd, rset, buf, devCmd>>

GetRefreshTimeSleeps ==
    /\ constructed
    /\ pre' = Cfg(integration_time, ack, ack_thd)
    /\ lastOp' = "get_refresh_time"
    /\ lastArg' = "none"
    /\ trace' = <<Ev("sleep", 0, <<RefreshTime(rset, integration_time)>>, TRUE)>>
    /\ result' = Res("value", RefreshTime(rset, integration_time), "")
    /\ UNCHANGED <<constructed, ack, ack_thd, integration_time, rset, buf, devCmd>>

\* get_refresh_time()
GetRefreshTime ==
    /\ constructed
    /\ pre' = Cfg(integration_time, ack, ack_thd)
    /\ lastOp' = "get_refresh_time"
    /\ lastArg' = "none"
    /\ trace' = <<>>
    /\ result' = Res("value", RefreshTime(rset, integration_time), "")
    /\ UNCHANGED <<constructed, ack, ack_thd, integration_time, rset, buf, devCmd>>

WakeClearsAck(ok) ==
    /\ constructed
    /\ pre' = Cfg(integration_time, ack, ack_thd)
    /\ lastOp' = "wake"
    /\ lastArg' = "none"
    /\ ack' = 0
    /\ buf' = WakeByte(ack, ack_thd, integration_time)
    /\ trace' = <<Ev("writeto", VEML6070_ADDR_CMD, <<buf'>>, ok)>>
    /\ devCmd' = IF ok THEN buf' ELSE devCmd
    /\ result' = IF ok THEN Res("None", 0, "") ELSE Res("OSError", 0, "")
    /\ UNCHANGED <<constructed, ack_thd, integration_time, rset>>

\* wake(); ok: whether the bus accepts the write
Wake(ok) ==
    /\ constructed
    /\ pre' = Cfg(integration_time, ack, ack_thd)
    /\ lastOp' = "wake"
    /\ lastArg' = "none"
    /\ buf' = WakeByte(ack, ack_thd, integration_time)
    /\ trace' = <<Ev("writeto", VEML6070_ADDR_CMD, <<buf'>>, ok)>>
    /\ devCmd' = IF ok THEN buf' ELSE devCmd
    /\ result' = IF ok THEN Res("None", 0, "") ELSE Res("OSError", 0, "")
    /\ UNCHANGED <<constructed, ack, ack_thd, integration_time, rset>>

ShutdownPropagates(ok) ==
    /\ constructed
    /\ pre' = Cfg(integration_time, ack, ack_thd)
    /\ lastOp' = "shutdown"
    /\ lastArg' = "none"
    /\ buf' = ShutdownByte
    /\ trace' = <<Ev("writeto", VEML6070_ADDR_CMD, <<buf'>>, ok)>>
    /\ devCmd' = IF ok THEN buf' ELSE devCmd
    /\ result' = IF ok THEN Res("True", 0, "") ELSE Res("OSError", 0, "")
    /\ UNCHANGED <<constructed, ack, ack_thd, integration_time, rset>>

\* shutdown(); ok: whether the bus accepts the write
Shutdown(ok) ==
    /\ constructed
    /\ pre' = Cfg(integration_time, ack, ack_thd)
    /\ lastOp' = "shutdown"
    /\ lastArg' = "none"
    /\ buf' = ShutdownByte
    /\ trace' = <<Ev("writeto", VEML6070_ADDR_CMD, <<buf'>>, ok)>>
    /\ devCmd' = IF ok THEN buf' ELSE devCmd
    /\ result' = IF ok THEN Res("True", 0, "") ELSE Res("False", 0, "")
    /\ UNCHANGED <<constructed, ack, ack_thd, integration_time, rset>>

----------------------------------------------------------------------------
(* read(): the measurement sequence.                                       *)

\* read_buf = msb + lsb ; raw = read_buf[1] << 8 | read_buf[0]
\* (Python indexes from 0, TLA+ sequences from 1)
Combine(lsb, msb) ==
    LET read_buf == <<msb, lsb>>
    IN  BitOr(Shl(read_buf[2], 8), read_buf[1])

ReadOutcomeSleepFirst(it, a, thd, rs, dev, f, l, m) ==
    LET wb   == WakeByte(a, thd, it)
        eW   == Ev("writeto", VEML6070_ADDR_CMD, <<wb>>, f # "wake")
        eS   == Ev("sleep", 0, <<RefreshTime(rs, it)>>, TRUE)
        eL   == Ev("readfrom_into", VEML6070_ADDR_LOW,
                   IF f = "lsb" THEN <<>> ELSE <<l>>, f # "lsb")
        eM   == Ev("readfrom_into", VEML6070_ADDR_HIGH,
                   IF f = "msb" THEN <<>> ELSE <<m>>, f # "msb")
        eD   == Ev("writeto", VEML6070_ADDR_CMD, <<ShutdownByte>>, f # "shutdown")
    IN  CASE f = "wake" ->
               [trace |-> <<eS, eW>>, buf |-> wb, dev |-> dev,
                res |-> Res("OSError", 0, "")]
          [] f = "lsb" ->
               [trace |-> <<eS, eW, eL>>, buf |-> wb, dev |-> wb,
                res |-> Res("OSError", 0, "")]
          [] f = "msb" ->
               [trace |-> <<eS, eW, eL, eM>>, buf |-> wb, dev |-> wb,
                res |-> Res("OSError", 0, "")]
          [] OTHER ->
               [trace |-> <<eS, eW, eL, eM, eD>>, buf |-> ShutdownByte,
                dev |-> IF f = "shutdown" THEN wb ELSE ShutdownByte,
                res |-> Res("value", Combine(l, m), "")]

ReadOutcomeNoShutdown(it, a, thd, rs, dev, f, l, m) ==
    LET wb   == WakeByte(a, thd, it)
        eW   == Ev("writeto", VEML6070_ADDR_CMD, <<wb>>, f # "wake")
        eS   == Ev("sleep", 0, <<RefreshTime(rs, it)>>, TRUE)
        eL   == Ev("readfrom_into", VEML6070_ADDR_LOW,
                   IF f = "lsb" THEN <<>> ELSE <<l>>, f # "lsb")
        eM   == Ev("readfrom_into", VEML6070_ADDR_HIGH,
                   IF f = "msb" THEN <<>> ELSE <<m>>, f # "msb")
    IN  CASE f = "wake" ->
               [trace |-> <<eW>>, buf |-> wb, dev |-> dev,
                res |-> Res("OSError", 0, "")]
          [] f = "lsb" ->
               [trace |-> <<eW, eS, eL>>, buf |-> wb, dev |-> wb,
                res |-> Res("OSError", 0, "")]
          [] f = "msb" ->
               [trace |-> <<eW, eS, eL, eM>>, buf |-> wb, dev |-> wb,
                res |-> Res("OSError", 0, "")]
          [] OTHER ->
               [trace |-> <<eW, eS, eL, eM>>, buf |-> wb, dev |-> wb,
                res |-> Res("value", Combine(l, m), "")]

ReadOutcomeFinally(it, a, thd, rs, dev, f, l, m) ==
    LET wb   == WakeByte(a, thd, it)
        eW   == Ev("writeto", VEML6070_ADDR_CMD, <<wb>>, f # "wake")
        eS   == Ev("sleep", 0, <<RefreshTime(rs, it)>>, TRUE)
        eL   == Ev("readfrom_into", VEML6070_ADDR_LOW,
                   IF f = "lsb" THEN <<>> ELSE <<l>>, f # "lsb")
        eM   == Ev("readfrom_into", VEML6070_ADDR_HIGH,
                   IF f = "msb" THEN <<>> ELSE <<m>>, f # "msb")
        eD   == Ev("writeto", VEML6070_ADDR_CMD, <<ShutdownByte>>, f # "shutdown")
    IN  CASE f = "wake" ->
               [trace |-> <<eW, eD>>, buf |-> ShutdownByte, dev |-> ShutdownByte,
                res |-> Res("OSError", 0, "")]
          [] f = "lsb" ->
               [trace |-> <<eW, eS, eL, eD>>, buf |-> ShutdownByte,
                dev |-> ShutdownByte, res |-> Res("OSError", 0, "")]
          [] f = "msb" ->
               [trace |-> <<eW, eS, eL, eM, eD>>, buf |-> ShutdownByte,
                dev |-> ShutdownByte, res |-> Res("OSError", 0, "")]
          [] OTHER ->
               [trace |-> <<eW, eS, eL, eM, eD>>, buf |-> ShutdownByte,
                dev |-> IF f = "shutdown" THEN wb ELSE ShutdownByte,
                res |-> Res("value", Combine(l, m), "")]

ReadOutcomeShutdownChecked(it, a, thd, rs, dev, f, l, m) ==
    LET wb   == WakeByte(a, thd, it)
        eW   == Ev("writeto", VEML6070_ADDR_CMD, <<wb>>, f # "wake")
        eS   == Ev("sleep", 0, <<RefreshTime(rs, it)>>, TRUE)
        eL   == Ev("readfrom_into", VEML6070_ADDR_LOW,
                   IF f = "lsb" THEN <<>> ELSE <<l>>, f # "lsb")
        eM   == Ev("readfrom_into", VEML6070_ADDR_HIGH,
                   IF f = "msb" THEN <<>> ELSE <<m>>, f # "msb")
        eD   == Ev("writeto", VEML6070_ADDR_CMD, <<ShutdownByte>>, f # "shutdown")
    IN  CASE f = "wake" ->
               [trace |-> <<eW>>, buf |-> wb, dev |-> dev,
                res |-> Res("OSError", 0, "")]
          [] f = "lsb" ->
               [trace |-> <<eW, eS, eL>>, buf |-> wb, dev |-> wb,
                res |-> Res("OSError", 0, "")]
          [] f = "msb" ->
               [trace |-> <<eW, eS, eL, eM>>, buf |-> wb, dev |-> wb,
                res |-> Res("OSError", 0, "")]
          [] f = "shutdown" ->
               [trace |-> <<eW, eS, eL, eM, eD>>, buf |-> ShutdownByte,
                dev |-> wb, res |-> Res("OSError", 0, "")]
          [] OTHER ->
               [trace |-> <<eW, eS, eL, eM, eD>>, buf |-> ShutdownByte,
                dev |-> ShutdownByte, res |-> Res("value", Combine(l, m), "")]

ReadOutcomeWakeSwallowed(it, a, thd, rs, dev, f, l, m) ==
    LET wb   == WakeByte(a, thd, it)
        eW   == Ev("writeto", VEML6070_ADDR_CMD, <<wb>>, f # "wake")
        eS   == Ev("sleep", 0, <<RefreshTime(rs, it)>>, TRUE)
        eL   == Ev("readfrom_into", VEML6070_ADDR_LOW,
                   IF f = "lsb" THEN <<>> ELSE <<l>>, f # "lsb")
        eM   == Ev("readfrom_into", VEML6070_ADDR_HIGH,
                   IF f = "msb" THEN <<>> ELSE <<m>>, f # "msb")
        eD   == Ev("writeto", VEML6070_ADDR_CMD, <<ShutdownByte>>, f # "shutdown")
    IN  CASE f = "lsb" ->
               [trace |-> <<eW, eS, eL>>, buf |-> wb, dev |-> wb,
                res |-> Res("OSError", 0, "")]
          [] f = "msb" ->
               [trace |-> <<eW, eS, eL, eM>>, buf |-> wb, dev |-> wb,
                res |-> Res("OSError", 0, "")]
          [] OTHER ->
               [trace |-> <<eW, eS, eL, eM, eD>>, buf |-> ShutdownByte,
                dev |-> IF f = "shutdown" THEN wb ELSE ShutdownByte,
                res |-> Res("value", Combine(l, m), "")]

\* The outcome of read() from configuration (it, a, thd, rs) and device
\* register dev, when the bus fails at f and the data registers deliver l
\* (address LOW) and m (address HIGH): the traffic, the buffer, the register,
\* and the value returned or the exception raised.
ReadOutcome(it, a, thd, rs, dev, f, l, m) ==
    LET wb   == WakeByte(a, thd, it)
        eW   == Ev("writeto", VEML6070_ADDR_CMD, <<wb>>, f # "wake")
        eS   == Ev("sleep", 0, <<RefreshTime(rs, it)>>, TRUE)
        eL   == Ev("readfrom_into", VEML6070_ADDR_LOW,
                   IF f = "lsb" THEN <<>> ELSE <<l>>, f # "lsb")
        eM   == Ev("readfrom_into", VEML6070_ADDR_HIGH,
                   IF f = "msb" THEN <<>> ELSE <<m>>, f # "msb")
        eD   == Ev("writeto", VEML6070_ADDR_CMD, <<ShutdownByte>>, f # "shutdown")
    IN  CASE f = "wake" ->
               [trace |-> <<eW>>, buf |-> wb, dev |-> dev,
                res |-> Res("OSError", 0, "")]
          [] f = "lsb" ->
               [trace |-> <<eW, eS, eL>>, buf |-> wb, dev |-> wb,
                res |-> Res("OSError", 0, "")]
          [] f = "msb" ->
               [trace |-> <<eW, eS, eL, eM>>, buf |-> wb, dev |-> wb,
                res |-> Res("OSError", 0, "")]
          [] OTHER ->
               [trace |-> <<eW, eS, eL, eM, eD>>, buf |-> ShutdownByte,
                dev |-> IF f = "shutdown" THEN wb ELSE ShutdownByte,
                res |-> Res("value", Combine(l, m), "")]

\* the data bytes that matter for a failure point
LsbChoices(f) == IF f \in {"wake", "lsb"} THEN {0} ELSE LowAddrBytes

MsbChoices(f) == IF f \in {"wake", "lsb", "msb"} THEN {0} ELSE HighAddrBytes

\* read()
Read(f, l, m) ==
    /\ constructed
    /\ pre' = Cfg(integration_time, ack, ack_thd)
    /\ lastOp' = "read"
    /\ lastArg' = "none"
    /\ LET o == ReadOutcome(integration_time, ack, ack_thd, rset, devCmd, f, l, m)
       IN /\ trace' = o.trace
          /\ buf' = o.buf
          /\ devCmd' = o.dev
          /\ result' = o.res
    /\ UNCHANGED <<constructed, ack, ack_thd, integration_time, rset>>

\* uva_light_sensitivity(): raw * (0.05625 / multiplier)
Sensitivity(raw, div) ==
    IF div = 0 THEN Res("ZeroDivisionError", raw, "")
    ELSE Res("value", raw * (SensitivityUnit \div div), "")

UvaLightSensitivity(f, l, m) ==
    /\ constructed
    /\ pre' = Cfg(integration_time, ack, ack_thd)
    /\ lastOp' = "uva_light_sensitivity"
    /\ lastArg' = "none"
    /\ LET o == ReadOutcome(integration_time, ack, ack_thd, rset, devCmd, f, l, m)
       IN /\ trace' = o.trace
          /\ buf' = o.buf
          /\ devCmd' = o.dev
          /\ result' = IF o.res.kind # "value" THEN o.res
                       ELSE Sensitivity(o.res.num,
                                VEML6070_INTEGRATION_TIME[integration_time][2])
    /\ UNCHANGED <<constructed, ack, ack_thd, integration_time, rset>>

\* the loop of uv_risk over the table: the first level, from position i on,
\* whose range(entry[0], entry[1]) holds raw_adj; "" when the loop ends
\* without a break and `risk` was never assigned
RECURSIVE RiskScan(_, _)
RiskScan(raw_adj, i) ==
    IF i > Len(RiskLevelKeys) THEN ""
    ELSE LET levels == RiskLevelKeys[i]
             lo == VEML6070_RISK_LEVEL[levels][1]
             hi == VEML6070_RISK_LEVEL[levels][2]
         IN  IF lo <= raw_adj /\ raw_adj < hi THEN levels
             ELSE RiskScan(raw_adj, i + 1)

RiskOfNoGuard(raw, div) ==
    IF div = 0 THEN Res("ZeroDivisionError", raw, "")
    ELSE LET risk == RiskScan(raw \div div, 1)
         IN  IF risk = "" THEN Res("UnboundLocalError", raw, "")
             ELSE Res("value", raw, risk)

\* uv_risk() after read() returned raw; num keeps raw
RiskOf(raw, div) ==
    IF div = 0 THEN Res("ValueError", raw, "")
    ELSE LET raw_adj == raw \div div
             risk == RiskScan(raw_adj, 1)
         IN  IF risk = "" THEN Res("UnboundLocalError", raw, "")
             ELSE Res("value", raw, risk)

UvRiskGuardFirst(f, l, m) ==
    /\ constructed
    /\ pre' = Cfg(integration_time, ack, ack_thd)
    /\ lastOp' = "uv_risk"
    /\ lastArg' = "none"
    /\ LET o == ReadOutcome(integration_time, ack, ack_thd, rset, devCmd, f, l, m)
           div == VEML6070_INTEGRATION_TIME[integration_time][2]
       IN IF div = 0
          THEN /\ trace' = <<>>
               /\ buf' = buf
               /\ devCmd' = devCmd
               /\ result' = Res("ValueError", 0, "")
          ELSE /\ trace' = o.trace
               /\ buf' = o.buf
               /\ devCmd' = o.dev
               /\ result' = IF o.res.kind # "value" THEN o.res
                            ELSE RiskOf(o.res.num, div)
    /\ UNCHANGED <<constructed, ack, ack_thd, integration_time, rset>>

UvRisk(f, l, m) ==
    /\ constructed
    /\ pre' = Cfg(integration_time, ack, ack_thd)
    /\ lastOp' = "uv_risk"
    /\ lastArg' = "none"
    /\ LET o == ReadOutcome(integration_time, ack, ack_thd, rset, devCmd, f, l, m)
       IN /\ trace' = o.trace
          /\ buf' = o.buf
          /\ devCmd' = o.dev
          /\ result' = IF o.res.kind # "value" THEN o.res
                       ELSE RiskOf(o.res.num,
                                VEML6070_INTEGRATION_TIME[integration_time][2])
    /\ UNCHANGED <<constructed, ack, ack_thd, integration_time, rset>>

----------------------------------------------------------------------------
Next ==
    \/ \E a \in {0, 1}, ok1 \in BOOLEAN, ok2 \in BOOLEAN : Construct(a, ok1, ok2)
    \/ \E it \in ModeInputs : SetIntegrationTime(it)
    \/ GetRefreshTime
    \/ \E ok \in BOOLEAN : Wake(ok)
    \/ \E ok \in BOOLEAN : Shutdown(ok)
    \/ \E f \in FailPoints : \E l \in LsbChoices(f), m \in MsbChoices(f) : Read(f, l, m)
    \/ \E f \in FailPoints : \E l \in LsbChoices(f), m \in MsbChoices(f) :
           UvaLightSensitivity(f, l, m)
    \/ \E f \in FailPoints : \E l \in LsbChoices(f), m \in MsbChoices(f) : UvRisk(f, l, m)

Spec == Init /\ [][Next]_vars

----------------------------------------------------------------------------
(* The documented behaviour, stated on its own terms.                      *)

\* the 2-bit code and the multiplier the documentation gives each mode
DocCode(it) ==
    CASE it = "VEML6070_HALF_T" -> 0
      [] it = "VEML6070_1_T"    -> 1
      [] it = "VEML6070_2_T"    -> 2
      [] it = "VEML6070_4_T"    -> 3

DocMult(it) ==
    CASE it = "VEML6070_HALF_T" -> 0
      [] it = "VEML6070_1_T"    -> 1
      [] it = "VEML6070_2_T"    -> 2
      [] it = "VEML6070_4_T"    -> 4

DocModes == {"VEML6070_HALF_T", "VEML6070_1_T", "VEML6070_2_T", "VEML6070_4_T"}

\* (ack << 5) | (ack_threshold << 4) | (code << 2) | 0b10, as a sum of its fields
DocWakeByte(a, thd, it) == 32 * a + 16 * thd + 4 * DocCode(it) + 2

\* the documented risk table, lower bound inclusive, upper bound exclusive
DocRisk(x) ==
    CASE x < 561   -> "LOW"
      [] x >= 561  /\ x < 1121 -> "MODERATE"
      [] x >= 1121 /\ x < 1495 -> "HIGH"
      [] x >= 1495 /\ x < 2055 -> "VERY HIGH"
      [] OTHER -> "EXTREME"

MeasureOps == {"read", "uva_light_sensitivity", "uv_risk"}

IsCmdWrite(e, byte) ==
    /\ e.op = "writeto"
    /\ e.addr = VEML6070_ADDR_CMD
    /\ e.data = <<byte>>

IsDataRead(e, addr) ==
    /\ e.op = "readfrom_into"
    /\ e.addr = addr

AllOk(t) == \A i \in 1..Len(t) : t[i].ok

HasShutdownWrite(t) == \E i \in 1..Len(t) : IsCmdWrite(t[i], 3)

\* C1: a read() that returns has issued exactly: the wake write to the command
\* address, the sleep of the refresh time, the read of the LSB address, the
\* read of the MSB address, the shutdown write to the command address, in
\* that order and nothing else.
C1_ReadSequence ==
    (lastOp = "read" /\ result.kind = "value") =>
        /\ Len(trace) = 5
        /\ IsCmdWrite(trace[1], DocWakeByte(ack, ack_thd, integration_time))
        /\ trace[2].op = "sleep"
        /\ trace[2].data = <<1125 * DocMult(integration_time)>>
        /\ IsDataRead(trace[3], 56)
        /\ IsDataRead(trace[4], 57)
        /\ IsCmdWrite(trace[5], 3)

C1_Witness ==
    /\ lastOp = "read"
    /\ result.kind = "value"
    /\ integration_time = "VEML6070_2_T"
    /\ Len(trace) = 5
    /\ trace[2].data = <<2250>>
    /\ AllOk(trace)

\* C2: read() returns (m << 8) | l, where l is the byte read from the LSB
\* address and m the byte read from the MSB address in that call.
C2_ReadCombinesMsbLsb ==
    (lastOp = "read" /\ result.kind = "value") =>
        /\ result.num = 256 * trace[4].data[1] + trace[3].data[1]
        /\ result.num \in 0..65535

\* C3: with a working bus, set_integration_time of a valid mode returns True,
\* stores the mode and writes to the command address a byte whose bits 2-3
\* are the mode's code.
C3_SetValidModeSucceeds ==
    (lastOp = "set_integration_time" /\ lastArg \in DocModes /\ AllOk(trace)) =>
        /\ result.kind = "True"
        /\ integration_time = lastArg
        /\ Len(trace) = 1
        /\ trace[1].op = "writeto"
        /\ trace[1].addr = VEML6070_ADDR_CMD
        /\ (trace[1].data[1] \div 4) % 4 = DocCode(lastArg)

\* C4: set_integration_time of a value that is not one of the four modes
\* returns False, issues no bus transaction and leaves integration_time, ack
\* and ack_thd as they were before the call.
C4_InvalidModeRejected ==
    (lastOp = "set_integration_time" /\ lastArg \notin DocModes) =>
        /\ result.kind = "False"
        /\ trace = <<>>
        /\ Cfg(integration_time, ack, ack_thd) = pre

C4_Witness ==
    /\ lastOp = "set_integration_time"
    /\ lastArg = "VEML6070_8_T"
    /\ result.kind = "False"
    /\ pre.integration_time = "VEML6070_4_T"
    /\ pre.ack = 1

\* C5: in mode One, Two or Four with a working bus, uv_risk returns, for
\* every reading whose adjusted value raw div multiplier is in 0..9999, the
\* level of the table Low [0,561), Moderate [561,1121), High [1121,1495),
\* VeryHigh [1495,2055), Extreme [2055,10000).
C5_RiskTable ==
    (/\ lastOp = "uv_risk"
     /\ integration_time \in {"VEML6070_1_T", "VEML6070_2_T", "VEML6070_4_T"}
     /\ Len(trace) = 5
     /\ AllOk(trace)
     /\ result.num \div DocMult(integration_time) \in 0..9999) =>
        /\ result.kind = "value"
        /\ result.level = DocRisk(result.num \div DocMult(integration_time))

\* C6: in mode Half, uv_risk never returns a risk level, and whenever its
\* measurement delivered a raw value (0 included) it raises the
\* ValueError that reports the unsupported integration time.
C6_HalfModeRiskFails ==
    (lastOp = "uv_risk" /\ integration_time = "VEML6070_HALF_T") =>
        /\ result.kind # "value"
        /\ result.level = ""
        /\ (Len(trace) = 5 => result.kind = "ValueError")

C6_Witness ==
    /\ lastOp = "uv_risk"
    /\ integration_time = "VEML6070_HALF_T"
    /\ Len(trace) = 5
    /\ AllOk(trace)
    /\ result.kind = "ValueError"
    /\ result.num = 0

\* C7 as stated: after every read() that returns a reading, the last command
\* byte the sensor accepted is the shutdown byte 0x03.
C7_ReadEndsShutDown ==
    (lastOp = "read" /\ result.kind = "value") => devCmd = 3

\* C7 amended: every read() that returns a reading has issued the shutdown
\* write last; if the bus accepted that write the last command byte the
\* sensor accepted is 0x03, and if the write failed the reading is returned
\* all the same and the sensor keeps the wake byte of that call.
C7_ReadEndsShutDownIfAccepted ==
    (lastOp = "read" /\ result.kind = "value") =>
        /\ Len(trace) >= 1
        /\ IsCmdWrite(trace[Len(trace)], 3)
        /\ (trace[Len(trace)].ok => devCmd = 3)
        /\ (~trace[Len(trace)].ok =>
                devCmd = DocWakeByte(ack, ack_thd, integration_time))

C7_Witness ==
    /\ lastOp = "read"
    /\ result.kind = "value"
    /\ AllOk(trace)
    /\ devCmd = 3
    /\ integration_time = "VEML6070_4_T"

\* C8 as stated: whenever read() has issued its wake write, it issues a
\* shutdown write (0x03 to the command address) before it returns or fails.
C8_ShutdownAlwaysIssued ==
    (lastOp = "read" /\ Len(trace) >= 1) => HasShutdownWrite(trace)

\* C8 amended: read() issues the shutdown write exactly when the wake write
\* and both data reads succeeded, that is when it returns a reading; when the
\* wake write or a data read fails, read() raises at once: the failed
\* transaction is the last one and no shutdown write is issued.
C8_ShutdownOnlyAfterBothReads ==
    (lastOp = "read") =>
        /\ Len(trace) >= 1
        /\ IsCmdWrite(trace[1], DocWakeByte(ack, ack_thd, integration_time))
        /\ HasShutdownWrite(trace) <=> result.kind = "value"
        /\ result.kind = "value" =>
              (\A i \in 1..4 : trace[i].ok) /\ IsCmdWrite(trace[5], 3)
        /\ result.kind # "value" =>
              /\ result.kind = "OSError"
              /\ ~trace[Len(trace)].ok
              /\ \A i \in 1..(Len(trace) - 1) : trace[i].ok

C8_Witness ==
    /\ lastOp = "read"
    /\ result.kind = "OSError"
    /\ Len(trace) = 3
    /\ trace[1].ok
    /\ ~trace[3].ok
    /\ ~HasShutdownWrite(trace)

\* C9: every command byte written by wake (called directly or by a
\* measurement) is (ack << 5) | (ack_thd << 4) | (code << 2) | 0b10 for the
\* configuration at the time of the write, for every ack, ack_thd in {0,1}
\* and every code 0..3; every byte written by shutdown is 0x03.
C9_CommandBytes ==
    /\ \A a \in {0, 1}, t \in {0, 1}, it \in DocModes :
           WakeByte(a, t, it) = DocWakeByte(a, t, it)
    /\ (lastOp \in MeasureOps \cup {"wake"}) =>
           /\ Len(trace) >= 1
           /\ IsCmdWrite(trace[1], DocWakeByte(pre.ack, pre.ack_thd,
                                               pre.integration_time))
    /\ (lastOp = "shutdown") => (Len(trace) = 1 /\ IsCmdWrite(trace[1], 3))
    /\ (lastOp \in MeasureOps /\ Len(trace) = 5) => IsCmdWrite(trace[5], 3)

C9_Witness ==
    /\ lastOp = "wake"
    /\ ack = 1
    /\ integration_time = "VEML6070_4_T"
    /\ trace = <<Ev("writeto", 56, <<46>>, TRUE)>>

\* C10: construction issues exactly two bus transactions: first a read at
\* the alert-response address, then the write to the command address of the
\* initial command byte built from the ack flag and integration time One.
C10_ConstructionTraffic ==
    (lastOp = "__init__" /\ result.kind = "None") =>
        /\ Len(trace) = 2
        /\ trace[1].op = "readfrom_into"
        /\ trace[1].addr = 12
        /\ IsCmdWrite(trace[2], 32 * ack + 4)

\* C11: shutdown() never raises: it returns False when its command write
\* fails and True when the write succeeds; wake() raises the bus error
\* (OSError) of a failed command write and returns None otherwise.
C11_ShutdownSwallowsWakePropagates ==
    /\ (lastOp = "shutdown") =>
           /\ Len(trace) = 1
           /\ IsCmdWrite(trace[1], 3)
           /\ result.kind = (IF trace[1].ok THEN "True" ELSE "False")
    /\ (lastOp = "wake") =>
           /\ Len(trace) = 1
           /\ trace[1].op = "writeto"
           /\ result.kind = (IF trace[1].ok THEN "None" ELSE "OSError")

C11_Witness ==
    /\ lastOp = "shutdown"
    /\ ~trace[1].ok
    /\ result.kind = "False"
    /\ devCmd # 3

\* C12: when the wake write and both data reads of a read() succeed and the
\* final shutdown write fails, read() raises nothing and returns the reading
\* it combined from that call's two bytes, the same value it returns for
\* these bytes when the shutdown write succeeds.
C12_ReadingSurvivesShutdownFailure ==
    (/\ lastOp = "read"
     /\ Len(trace) = 5
     /\ \A i \in 1..4 : trace[i].ok
     /\ ~trace[5].ok) =>
        /\ result.kind = "value"
        /\ result.num = 256 * trace[3].data[1] + trace[4].data[1]
        /\ result = ReadOutcome(integration_time, ack, ack_thd, rset, devCmd,
                                "none", trace[3].data[1], trace[4].data[1]).res

C12_Witness ==
    /\ lastOp = "read"
    /\ Len(trace) = 5
    /\ \A i \in 1..4 : trace[i].ok
    /\ ~trace[5].ok
    /\ result.kind = "value"
    /\ result.num = 9999

\* C13: a set_integration_time of a valid mode that does not return True
\* has failed with the bus error (OSError) of its one, failed command write,
\* and the stored integration_time is the requested mode.
C13_SetModeBusErrorKeepsMode ==
    (/\ lastOp = "set_integration_time"
     /\ lastArg \in DocModes
     /\ result.kind # "True") =>
        /\ integration_time = lastArg
        /\ result.kind = "OSError"
        /\ Len(trace) = 1
        /\ ~trace[1].ok

\* C14: in mode Half, uva_light_sensitivity, once its measurement delivered a
\* raw value, fails with the same error kind uv_risk reports for Half (the
\* ValueError of the unsupported integration time) and returns no value.
C14_HalfModeSensitivityFails ==
    (/\ lastOp = "uva_light_sensitivity"
     /\ integration_time = "VEML6070_HALF_T"
     /\ Len(trace) = 5) =>
        /\ result.kind # "value"
        /\ result.kind = RiskOf(result.num, DocMult(integration_time)).kind
        /\ result.kind = "ValueError"

\* C15: get_refresh_time is pure: a call issues no bus transaction and no
\* sleep, leaves every attribute of the driver and the sensor's register as
\* they were, returns 1125 (0.1125 s) times the multiplier of the current
\* mode, and returns the same result as the call before it when the
\* configuration did not change in between.
C15_RefreshTimePure ==
    [][(lastOp' = "get_refresh_time") =>
          /\ trace' = <<>>
          /\ UNCHANGED <<constructed, ack, ack_thd, integration_time, rset,
                         buf, devCmd>>
          /\ result'.kind = "value"
          /\ result'.num = 1125 * DocMult(integration_time)
          /\ (integration_time \in {"VEML6070_1_T", "VEML6070_2_T", "VEML6070_4_T"}
                 => result'.num \in {1125, 2250, 4500})
          /\ (lastOp = "get_refresh_time" => result' = result)]_vars

C15_Witness ==
    /\ lastOp = "get_refresh_time"
    /\ integration_time = "VEML6070_4_T"
    /\ pre.integration_time = "VEML6070_4_T"
    /\ result = Res("value", 4500, "")
    /\ trace = <<>>

\* C16: in mode One, Two or Four with a working bus, uv_risk leaves exactly
\* the adjusted values >= 10000 unmatched, and for those it either returns
\* Extreme or fails; every adjusted value below 10000 gets a risk level.
C16_UnmatchedExactlyAboveTable ==
    (/\ lastOp = "uv_risk"
     /\ integration_time \in {"VEML6070_1_T", "VEML6070_2_T", "VEML6070_4_T"}
     /\ Len(trace) = 5
     /\ AllOk(trace)) =>
        LET adjusted == result.num \div DocMult(integration_time)
        IN  /\ (adjusted < 10000) => (result.kind = "value" /\ result.level # "")
            /\ (adjusted >= 10000) =>
                   \/ result.kind = "value" /\ result.level = "EXTREME"
                   \/ result.kind # "value"

\* C17: in read(), a failure of the wake write or of a data read is raised at
\* once as the bus error and no reading is returned: the failed transaction
\* is the last one issued; after a failed wake write there is no sleep and
\* no data read, after a failed LSB read there is no MSB read.
C17_ReadFailsFast ==
    (lastOp = "read" /\ \E i \in 1..Len(trace) : i <= 4 /\ ~trace[i].ok) =>
        /\ result.kind = "OSError"
        /\ result.num = 0
        /\ ~trace[Len(trace)].ok
        /\ \A i \in 1..(Len(trace) - 1) : trace[i].ok
        /\ ~trace[1].ok => trace = <<Ev("writeto", 56,
               <<DocWakeByte(ack, ack_thd, integration_time)>>, FALSE)>>
        /\ (Len(trace) >= 3 /\ ~trace[3].ok) =>
               /\ Len(trace) = 3
               /\ \A i \in 1..Len(trace) : ~IsDataRead(trace[i], 57)
        /\ \A i \in 1..Len(trace) : trace[i].op = "sleep" => (i = 2 /\ trace[1].ok)

C17_Witness ==
    /\ lastOp = "read"
    /\ result.kind = "OSError"
    /\ Len(trace) = 1
    /\ ~trace[1].ok
    /\ integration_time = "VEML6070_2_T"

\* C18: once the driver is constructed, ack and ack_thd never change (ack_thd
\* stays 0), and integration_time changes only in a step that is a
\* set_integration_time call: wake, shutdown, read, get_refresh_time,
\* uva_light_sensitivity and uv_risk leave the three untouched whether they
\* succeed or fail.
C18_ConfigOnlyBySetIntegrationTime ==
    [][constructed =>
          /\ ack' = ack
          /\ ack_thd' = ack_thd
          /\ ack_thd' = 0
          /\ (integration_time' # integration_time =>
                  lastOp' = "set_integration_time")
          /\ (lastOp' \in MeasureOps \cup {"wake", "shutdown", "get_refresh_time"} =>
                  /\ integration_time' = integration_time
                  /\ pre' = Cfg(integration_time', ack', ack_thd'))]_vars

C18_Witness ==
    /\ lastOp = "uv_risk"
    /\ result.kind = "OSError"
    /\ integration_time = "VEML6070_4_T"
    /\ ack = 1
    /\ ack_thd = 0
    /\ pre = Cfg("VEML6070_4_T", 1, 0)

\* C19: in mode Half with a working bus, a uv_risk call issues the whole
\* measurement traffic (wake write, sleep, LSB read, MSB read, shutdown
\* write) before it fails with the ValueError of its guard, and leaves the
\* sensor with the shutdown byte 0x03.
C19_HalfGuardAfterMeasurement ==
    (/\ lastOp = "uv_risk"
     /\ integration_time = "VEML6070_HALF_T"
     /\ result.kind = "ValueError") =>
        /\ Len(trace) = 5
        /\ IsCmdWrite(trace[1], DocWakeByte(ack, ack_thd, integration_time))
        /\ trace[2].op = "sleep"
        /\ IsDataRead(trace[3], 56)
        /\ IsDataRead(trace[4], 57)
        /\ IsCmdWrite(trace[5], 3)
        /\ \A i \in 1..4 : trace[i].ok
        /\ trace[5].ok => devCmd = 3

C19_Witness ==
    /\ lastOp = "uv_risk"
    /\ integration_time = "VEML6070_HALF_T"
    /\ result.kind = "ValueError"
    /\ result.num = 560
    /\ AllOk(trace)
    /\ devCmd = 3
    /\ buf = 3

\* C20: the command bytes written by construction, set_integration_time and
\* wake have bit 0 clear, so after a successful construction, a successful
\* wake, or a set_integration_time of a valid mode on a working bus (also
\* right after a read) the last byte the sensor accepted has bit 0 clear:
\* the sensor is Active.
C20_ActiveAfterConfigWrite ==
    /\ (lastOp = "__init__" /\ result.kind = "None") => devCmd % 2 = 0
    /\ (lastOp = "wake" /\ result.kind = "None") => devCmd % 2 = 0
    /\ (lastOp = "set_integration_time" /\ lastArg \in DocModes /\ AllOk(trace)) =>
           devCmd % 2 = 0

====
